---- MODULE Spec2Model ----
(***************************************************************************)
(* Tweets -> LLM -> structured events pipeline (pipeline.py, x_scraper.py, *)
(* event_classifier.py) with its file store and the Streamlit dashboard    *)
(* that loads the latest structured-events file (app.py).                  *)
(*                                                                         *)
(* Strings that are compared lexicographically (usernames, run prefixes,   *)
(* file names) are sequences of character codes.  Python None / JSON null  *)
(* is the value None; a key absent from a JSON object is absent from the   *)
(* DOMAIN of the function that models the object.                          *)
(***************************************************************************)
EXTENDS Integers, Sequences, FiniteSets, TLC

\* ------------------------------------------------------------------ bounds
\* posts the listing endpoint can return in one call
MaxTweets == 2
\* seconds the UTC clock can advance during a behaviour
MaxTicks == 1
\* pipeline runs started during a behaviour
MaxRuns == 2
\* events in the file the dashboard filters
MaxRows == 3

VARIABLES
    clock,        \* datetime.utcnow(), in whole seconds
    dirs,         \* directories that exist under output_root
    files,        \* path -> content of every file under output_root
    runs,         \* pipeline runs started so far
    caller,       \* "none" | "cli" (main.py) | "dashboard" (app.py)
    phase,        \* position of execute_pipeline
    username,     \* execute_pipeline's username argument
    prefix,       \* execute_pipeline's prefix
    tweets,       \* execute_pipeline's tweets
    events,       \* execute_pipeline's events
    error,        \* the exception propagating out of execute_pipeline
    llmCalls,     \* classify_tweet calls made by the current run
    max_tweets,   \* execute_pipeline's max_tweets argument
    fetchCalls,   \* collect_tweets calls made by the current run
    listing,      \* max_results of each listing request the current run has sent
    store0,       \* dirs and files when the current run started
    dphase,       \* position of app.main
    message,      \* st.success / st.error shown by the trigger path
    loaded,       \* (latest_file, events) of app.main
    cTweet,       \* classifier check: the post being classified
    cData,        \* classifier check: the parsed service response
    cEvent,       \* classifier check: the structured event built from it
    fstage,       \* dashboard filters: position in app.main
    df,           \* dashboard filters: build_events_dataframe(events)
    time_window,
    selected_session,
    selected_impacts,
    selected_type_labels,
    selected_regions,
    df_filtered,
    n_events,
    min_time,             \* dashboard summary: earliest filtered timestamp
    max_time_filtered,    \* dashboard summary: latest filtered timestamp
    chart,                \* the points of the timeline chart
    df_display            \* the rows of the detail table

pipeVars == <<clock, dirs, files, runs, caller, phase, username, prefix, tweets,
              events, error, llmCalls, max_tweets, fetchCalls, listing, store0, dphase,
              message, loaded>>
fetchVars == <<max_tweets, fetchCalls, listing>>
clsVars == <<cTweet, cData, cEvent>>
renderVars == <<min_time, max_time_filtered, chart, df_display>>
filterVars == <<fstage, df, time_window, selected_session, selected_impacts,
                selected_type_labels, selected_regions, df_filtered, n_events,
                min_time, max_time_filtered, chart, df_display>>
vars == <<pipeVars, clsVars, filterVars>>

\* ------------------------------------------------------------ Python values
None == "<None>"
Missing == "<missing>"

RECURSIVE Reverse(_)
Reverse(s) == IF s = <<>> THEN <<>> ELSE Append(Reverse(Tail(s)), Head(s))

\* x in lst, for a Python list
InList(x, lst) == \E i \in DOMAIN lst : lst[i] = x

\* d.get(key, default)
DictGet(d, key, default) == IF key \in DOMAIN d THEN d[key] ELSE default

\* ----------------------------------------------------- event_classifier.py
EVENT_TYPES == <<"MACRO_DATA", "CENTRAL_BANK", "EARNINGS", "GEOPOLITICS",
                 "CRYPTO", "COMMODITIES", "POLICY/REGULATION", "OTHER">>

COUNTRY_REGIONS == <<"US", "EU", "China", "UK", "Global">>

IMPACTS == <<"Faible", "Moyen", "Élevé">>

DefaultExplanation == "No explanation provided by the model."

\* LLM._infer_event_from_tweet, from `data = json.loads(content)` on: the
\* four data.get calls, then the three independent vocabulary checks.
InferEvent_NoImpactCheck(data) ==
    LET event == [event_type     |-> DictGet(data, "event_type", "OTHER"),
                  country_region |-> DictGet(data, "country_region", "Global"),
                  impact         |-> DictGet(data, "impact", "Faible"),
                  explanation    |-> DictGet(data, "explanation", DefaultExplanation)]
        e1 == IF ~InList(event.event_type, EVENT_TYPES)
              THEN [event EXCEPT !.event_type = "OTHER"] ELSE event
        e2 == IF ~InList(e1.country_region, COUNTRY_REGIONS)
              THEN [e1 EXCEPT !.country_region = "Global"] ELSE e1
    IN  e2

InferEvent(data) ==
    LET event == [event_type     |-> DictGet(data, "event_type", "OTHER"),
                  country_region |-> DictGet(data, "country_region", "Global"),
                  impact         |-> DictGet(data, "impact", "Faible"),
                  explanation    |-> DictGet(data, "explanation", DefaultExplanation)]
        e1 == IF ~InList(event.event_type, EVENT_TYPES)
              THEN [event EXCEPT !.event_type = "OTHER"] ELSE event
        e2 == IF ~InList(e1.country_region, COUNTRY_REGIONS)
              THEN [e1 EXCEPT !.country_region = "Global"] ELSE e1
        e3 == IF ~InList(e2.impact, IMPACTS)
              THEN [e2 EXCEPT !.impact = "Faible"] ELSE e2
    IN  e3

\* LLM.classify_tweet: the service's answer to the prompt is the input `data`
ClassifyTweet(data) == InferEvent(data)

\* The JSON objects the completion service can answer with: every key may be
\* absent, null, in the vocabulary (default or not) or outside it.
ResponseKeys == {"event_type", "country_region", "impact", "explanation"}

MkData(e, c, i, x) ==
    LET val == [k \in ResponseKeys |->
                  CASE k = "event_type"     -> e
                    [] k = "country_region" -> c
                    [] k = "impact"         -> i
                    [] k = "explanation"    -> x]
    IN  [k \in {kk \in ResponseKeys : val[kk] # Missing} |-> val[k]]

EventTypeAnswers == {Missing, None, "CRYPTO", "OTHER", "crypto"}
RegionAnswers == {Missing, None, "US", "Global", "Mars"}
ImpactAnswers == {Missing, None, "Élevé", "Faible", "High"}
ExplanationAnswers == {Missing, None, "", "Rates may move."}

ServiceResponses ==
    {MkData(e, c, i, x) : e \in EventTypeAnswers, c \in RegionAnswers,
                          i \in ImpactAnswers, x \in ExplanationAnswers}

\* The answers the pipeline runs draw from: none of the keys, all four valid,
\* and two mixed answers.
PipelineResponses ==
    {MkData(Missing, Missing, Missing, Missing),
     MkData("CRYPTO", "US", "Élevé", "Rates may move."),
     MkData("crypto", "US", None, ""),
     MkData("CRYPTO", "Mars", "Moyen", None)}

\* ------------------------------------------------------------- x_scraper.py
\* One post as XScraper.collect_tweets returns it.
Post(i) == [id |-> "id" \o ToString(i),
            created_at |-> 1000 + i,
            text |-> "text" \o ToString(i)]

PostPool == {Post(i) : i \in 1..MaxTweets}

RECURSIVE SeqsUpTo(_, _)
SeqsUpTo(S, n) ==
    IF n = 0 THEN {<<>>}
    ELSE LET shorter == SeqsUpTo(S, n - 1)
         IN  shorter \cup {Append(s, x) : s \in shorter, x \in S}

Distinct(s) == \A i, j \in DOMAIN s : i # j => s[i] # s[j]

\* What the listing call can return: up to MaxTweets posts, ids unique.
FetchResults == {s \in SeqsUpTo(PostPool, MaxTweets) : Distinct(s)}

\* ---------------------------------------------------------------- strings
At == 64
Underscore == 95
Space == 32

RECURSIVE LStrip(_, _)
LStrip(s, ch) == IF s # <<>> /\ Head(s) = ch THEN LStrip(Tail(s), ch) ELSE s

RStrip(s, ch) == Reverse(LStrip(Reverse(s), ch))

\* str.strip() on the whitespace the inputs contain
Strip(s) == RStrip(LStrip(s, Space), Space)

\* a < b for Python str
RECURSIVE LexLess(_, _)
LexLess(a, b) ==
    IF a = <<>> THEN b # <<>>
    ELSE IF b = <<>> THEN FALSE
    ELSE IF a[1] # b[1] THEN a[1] < b[1]
    ELSE LexLess(Tail(a), Tail(b))

\* datetime.utcnow().strftime("%Y%m%d_%H%M%S"): fixed width, zero padded,
\* most significant field first.  The clock is counted in seconds and
\* written with two decimal digits.
Strftime(t) == <<48 + ((t \div 10) % 10), 48 + (t % 10)>>

RunPrefix(user, t) == user \o <<Underscore>> \o Strftime(t)

\* ------------------------------------------------------- the file store
RawDir == "raw_tweets"
StructuredDir == "structured_events"

\* "_tweets_raw.json" and "_events.json"
RawSuffix == <<95, 116, 119, 101, 101, 116, 115, 95, 114, 97, 119, 46, 106, 115, 111, 110>>
EventsSuffix == <<95, 101, 118, 101, 110, 116, 115, 46, 106, 115, 111, 110>>

NoPath == [dir |-> "", name |-> <<>>]

\* A file whose json.dump completed, and one that was opened with "w"
\* (created or truncated) but whose json.dump did not complete.
Written(data) == [ok |-> TRUE, data |-> data]
Truncated == [ok |-> FALSE, data |-> <<>>]

WriteOutcomes == {"makedirs_fails", "open_fails", "dump_fails", "ok"}

\* ensure_directory(output_dir); open(json_path, "w"); json.dump(data, f):
\* the store after the call, and whether it raised.
WriteJson(ds, fs, path, data, outcome) ==
    LET put(c) == [p \in DOMAIN fs \cup {path} |-> IF p = path THEN c ELSE fs[p]]
    IN  CASE outcome = "makedirs_fails" ->
               [dirs |-> ds, files |-> fs, raised |-> TRUE]
          [] outcome = "open_fails" ->
               [dirs |-> ds \cup {path.dir}, files |-> fs, raised |-> TRUE]
          [] outcome = "dump_fails" ->
               [dirs |-> ds \cup {path.dir}, files |-> put(Truncated), raised |-> TRUE]
          [] outcome = "ok" ->
               [dirs |-> ds \cup {path.dir}, files |-> put(Written(data)), raised |-> FALSE]

RawPath(pfx) == [dir |-> RawDir, name |-> pfx \o RawSuffix]
EventsPath(pfx) == [dir |-> StructuredDir, name |-> pfx \o EventsSuffix]

export_raw_tweets_json(ds, fs, twts, pfx, outcome) ==
    WriteJson(ds, fs, RawPath(pfx), twts, outcome)

export_events_json(ds, fs, evts, pfx, outcome) ==
    WriteJson(ds, fs, EventsPath(pfx), evts, outcome)

\* ------------------------------------------------------------- pipeline.py
Terminal == {"EmptyStop", "StructuredPersisted", "Aborted"}

\* the dict execute_pipeline appends for tweet t and its classification
EventRecord_SwappedFields(t, event) ==
    [tweet_id         |-> t.id,
     tweet_created_at |-> t.created_at,
     tweet_text       |-> t.id,
     event_type       |-> event.event_type,
     country_region   |-> event.country_region,
     impact           |-> event.impact,
     explanation      |-> event.explanation]

EventRecord(t, event) ==
    [tweet_id         |-> t.id,
     tweet_created_at |-> t.created_at,
     tweet_text       |-> t.text,
     event_type       |-> event.event_type,
     country_region   |-> event.country_region,
     impact           |-> event.impact,
     explanation      |-> event.explanation]

\* execute_pipeline, up to the call of collect_tweets: timestamp and prefix
ExecutePipelineStart(user, limit) ==
    /\ runs < MaxRuns
    /\ runs' = runs + 1
    /\ phase' = "Fetching"
    /\ username' = user
    /\ max_tweets' = limit
    /\ fetchCalls' = 0
    /\ listing' = <<>>
    /\ prefix' = RunPrefix(user, clock)
    /\ tweets' = <<>>
    /\ events' = <<>>
    /\ error' = "none"
    /\ llmCalls' = 0
    /\ store0' = [dirs |-> dirs, files |-> files]

\* api_max_results = max(5, min(max_tweets, 100))
Min(a, b) == IF a < b THEN a ELSE b
Max(a, b) == IF a > b THEN a ELSE b
ApiMaxResults(n) == Max(5, Min(n, 100))

\* what one listing request of size max_results can return
ListingResults(max_results) == {r \in FetchResults : Len(r) <= max_results}

\* collect_tweets (get_user_id, then one listing call), the early return on
\* an empty result, and export_raw_tweets_json
FetchTweets_NoEarlyReturn ==
    /\ phase = "Fetching"
    /\ fetchCalls' = fetchCalls + 1
    /\ \/ /\ error' = "ResolutionError"
          /\ phase' = "Aborted"
          /\ UNCHANGED <<tweets, dirs, files, listing>>
       \/ /\ listing' = Append(listing, ApiMaxResults(max_tweets))
          /\ \/ /\ error' = "FetchError"
                /\ phase' = "Aborted"
                /\ UNCHANGED <<tweets, dirs, files>>
             \/ \E r \in ListingResults(ApiMaxResults(max_tweets)),
                   outcome \in WriteOutcomes :
                   LET w == export_raw_tweets_json(dirs, files, r, prefix, outcome)
                   IN  /\ tweets' = r
                       /\ dirs' = w.dirs
                       /\ files' = w.files
                       /\ error' = IF w.raised THEN "PersistenceError" ELSE "none"
                       /\ phase' = IF w.raised THEN "Aborted"
                                   ELSE IF r = <<>> THEN "EmptyStop" ELSE "RawPersisted"
    /\ UNCHANGED <<clock, runs, caller, username, prefix, events, llmCalls, max_tweets,
                   store0, dphase, message, loaded, clsVars, filterVars>>

FetchTweets ==
    /\ phase = "Fetching"
    /\ fetchCalls' = fetchCalls + 1
    /\ \/ /\ error' = "ResolutionError"
          /\ phase' = "Aborted"
          /\ UNCHANGED <<tweets, dirs, files, listing>>
       \/ /\ listing' = Append(listing, ApiMaxResults(max_tweets))
          /\ \/ /\ error' = "FetchError"
                /\ phase' = "Aborted"
                /\ UNCHANGED <<tweets, dirs, files>>
             \/ /\ tweets' = <<>>
                /\ phase' = "EmptyStop"
                /\ UNCHANGED <<error, dirs, files>>
             \/ \E r \in ListingResults(ApiMaxResults(max_tweets)) \ {<<>>},
                   outcome \in WriteOutcomes :
                   LET w == export_raw_tweets_json(dirs, files, r, prefix, outcome)
                   IN  /\ tweets' = r
                       /\ dirs' = w.dirs
                       /\ files' = w.files
                       /\ error' = IF w.raised THEN "PersistenceError" ELSE "none"
                       /\ phase' = IF w.raised THEN "Aborted" ELSE "RawPersisted"
    /\ UNCHANGED <<clock, runs, caller, username, prefix, events, llmCalls, max_tweets,
                   store0, dphase, message, loaded, clsVars, filterVars>>

ClassifyNext_FlushPartial ==
    /\ phase \in {"RawPersisted", "Classifying"}
    /\ Len(events) < Len(tweets)
    /\ llmCalls' = llmCalls + 1
    /\ \/ /\ error' = "ClassificationError"
          /\ phase' = "Aborted"
          /\ dirs' = dirs \cup {StructuredDir}
          /\ files' = export_events_json(dirs, files, events, prefix, "ok").files
          /\ UNCHANGED events
       \/ \E data \in PipelineResponses :
             /\ events' = Append(events,
                                 EventRecord(tweets[Len(events) + 1], ClassifyTweet(data)))
             /\ phase' = "Classifying"
             /\ UNCHANGED <<error, dirs, files>>
    /\ UNCHANGED <<clock, runs, caller, username, prefix, tweets, fetchVars, store0,
                   dphase, message, loaded, clsVars, filterVars>>

ClassifyNext_Retry ==
    /\ phase \in {"RawPersisted", "Classifying"}
    /\ Len(events) < Len(tweets)
    /\ llmCalls' = llmCalls + 1
    /\ \/ UNCHANGED <<error, phase, events>>
       \/ \E data \in PipelineResponses :
             /\ events' = Append(events,
                                 EventRecord(tweets[Len(events) + 1], ClassifyTweet(data)))
             /\ phase' = "Classifying"
             /\ UNCHANGED error
    /\ UNCHANGED <<clock, dirs, files, runs, caller, username, prefix, tweets,
                   fetchVars, store0, dphase, message, loaded, clsVars, filterVars>>

\* one iteration of `for t in tweets`: classify_tweet raises (the call fails,
\* or the content is not a JSON object), or the event is appended
ClassifyNext ==
    /\ phase \in {"RawPersisted", "Classifying"}
    /\ Len(events) < Len(tweets)
    /\ llmCalls' = llmCalls + 1
    /\ \/ /\ error' = "ClassificationError"
          /\ phase' = "Aborted"
          /\ UNCHANGED events
       \/ \E data \in PipelineResponses :
             /\ events' = Append(events,
                                 EventRecord(tweets[Len(events) + 1], ClassifyTweet(data)))
             /\ phase' = "Classifying"
             /\ UNCHANGED error
    /\ UNCHANGED <<clock, dirs, files, runs, caller, username, prefix, tweets,
                   fetchVars, store0, dphase, message, loaded, clsVars, filterVars>>

\* export_events_json after the loop
ExportEvents ==
    /\ phase = "Classifying"
    /\ Len(events) = Len(tweets)
    /\ \E outcome \in WriteOutcomes :
          LET w == export_events_json(dirs, files, events, prefix, outcome)
          IN  /\ dirs' = w.dirs
              /\ files' = w.files
              /\ error' = IF w.raised THEN "PersistenceError" ELSE "none"
              /\ phase' = IF w.raised THEN "Aborted" ELSE "StructuredPersisted"
    /\ UNCHANGED <<clock, runs, caller, username, prefix, tweets, events, llmCalls, fetchVars,
                   store0, dphase, message, loaded, clsVars, filterVars>>

\* the run's locals are gone once execute_pipeline has returned or raised
RunReset ==
    /\ phase' = "Idle"
    /\ username' = <<>>
    /\ prefix' = <<>>
    /\ tweets' = <<>>
    /\ events' = <<>>
    /\ error' = "none"
    /\ llmCalls' = 0
    /\ max_tweets' = 0
    /\ fetchCalls' = 0
    /\ listing' = <<>>
    /\ store0' = [dirs |-> {}, files |-> <<>>]

\* ----------------------------------------------------------------- main.py
\* "a" and "@b" as --username
CliUsernames == {<<97>>, <<At, 98>>}

\* settings.tweet_limit, from TWEET_LIMIT with default "50"
TweetLimit == 50

\* --max-tweets: not given (0 stands for None; 0 itself is falsy too), or 1
CliMaxTweets == {0, 1}

\* main(): args.max_tweets or settings.tweet_limit, args.username.lstrip("@"),
\* then execute_pipeline
CliMain ==
    /\ caller = "none"
    /\ \E arg \in CliUsernames, n \in CliMaxTweets :
          ExecutePipelineStart(LStrip(arg, At), IF n = 0 THEN TweetLimit ELSE n)
    /\ caller' = "cli"
    /\ UNCHANGED <<clock, dirs, files, dphase, message, loaded, clsVars, filterVars>>

\* the process ends when execute_pipeline returns or its exception propagates
CliExit ==
    /\ caller = "cli"
    /\ phase \in Terminal
    /\ RunReset
    /\ caller' = "none"
    /\ UNCHANGED <<clock, dirs, files, runs, dphase, message, loaded, clsVars, filterVars>>

\* ------------------------------------------------------------------ app.py
EndsWith(s, suffix) ==
    /\ Len(s) >= Len(suffix)
    /\ SubSeq(s, Len(s) - Len(suffix) + 1, Len(s)) = suffix

\* structured_dir.glob("*_events.json")
GlobEvents(ds, fs) ==
    {p \in DOMAIN fs : p.dir = StructuredDir /\ EndsWith(p.name, EventsSuffix)}

\* sorted(paths): ascending by name
RECURSIVE SortedPaths(_)
SortedPaths(S) ==
    IF S = {} THEN <<>>
    ELSE LET first == CHOOSE p \in S : \A q \in S \ {p} : LexLess(p.name, q.name)
         IN  <<first>> \o SortedPaths(S \ {first})

\* load_latest_events_file(output_root) -> (latest, events)
load_latest_events_file_First(ds, fs) ==
    IF StructuredDir \notin ds THEN <<NoPath, <<>>>>
    ELSE LET sortedFiles == SortedPaths(GlobEvents(ds, fs))
         IN  IF sortedFiles = <<>> THEN <<NoPath, <<>>>>
             ELSE LET latest == sortedFiles[1]
                  IN  IF fs[latest].ok THEN <<latest, fs[latest].data>>
                      ELSE <<latest, <<>>>>

load_latest_events_file(ds, fs) ==
    IF StructuredDir \notin ds THEN <<NoPath, <<>>>>
    ELSE LET sortedFiles == SortedPaths(GlobEvents(ds, fs))
         IN  IF sortedFiles = <<>> THEN <<NoPath, <<>>>>
             ELSE LET latest == sortedFiles[Len(sortedFiles)]
                  IN  IF fs[latest].ok THEN <<latest, fs[latest].data>>
                      ELSE <<latest, <<>>>>

\* "a", "@b ", "@" typed in the sidebar
DashUsernames == {<<97>>, <<At, 98, Space>>, <<At>>}

\* the number input (1..100) left at settings.tweet_limit, or set to 1
DashMaxTweets == {1, TweetLimit}

\* a rerun of the script without the button
DashRerun ==
    /\ caller = "none"
    /\ caller' = "dashboard"
    /\ dphase' = "load"
    /\ UNCHANGED <<clock, dirs, files, runs, phase, username, prefix, tweets, events,
                   error, llmCalls, fetchVars, store0, message, loaded, clsVars, filterVars>>

\* "Run pipeline now": the username is cleaned; an empty one is refused,
\* otherwise execute_pipeline is called inside the try, unless building the
\* two clients already raised
DashRunPipeline ==
    /\ caller = "none"
    /\ caller' = "dashboard"
    /\ \E typed \in DashUsernames, n \in DashMaxTweets :
          LET cleaned_username == Strip(LStrip(typed, At))
          IN  \/ /\ cleaned_username = <<>>
                 /\ message' = "invalid_username"
                 /\ dphase' = "load"
                 /\ UNCHANGED <<runs, phase, username, prefix, tweets, events, error,
                                llmCalls, fetchVars, store0>>
              \/ /\ cleaned_username # <<>>
                 /\ ExecutePipelineStart(cleaned_username, n)
                 /\ message' = "info"
                 /\ dphase' = "pipeline"
              \/ /\ cleaned_username # <<>>
                 /\ message' = "error"
                 /\ dphase' = "load"
                 /\ store0' = [dirs |-> dirs, files |-> files]
                 /\ UNCHANGED <<runs, phase, username, prefix, tweets, events, error,
                                llmCalls, fetchVars>>
    /\ UNCHANGED <<clock, dirs, files, loaded, clsVars, filterVars>>

\* execute_pipeline returned (st.success) or raised (except Exception: st.error)
DashPipelineDone ==
    /\ caller = "dashboard"
    /\ dphase = "pipeline"
    /\ phase \in Terminal
    /\ message' = IF error = "none" THEN "success" ELSE "error"
    /\ dphase' = "load"
    /\ UNCHANGED <<clock, dirs, files, runs, caller, phase, username, prefix, tweets,
                   events, error, llmCalls, fetchVars, store0, loaded, clsVars, filterVars>>

\* latest_file, events = load_latest_events_file(settings.output_dir)
DashLoad ==
    /\ caller = "dashboard"
    /\ dphase = "load"
    /\ loaded' = load_latest_events_file(dirs, files)
    /\ dphase' = "rendered"
    /\ UNCHANGED <<clock, dirs, files, runs, caller, phase, username, prefix, tweets,
                   events, error, llmCalls, fetchVars, store0, message, clsVars, filterVars>>

\* the script ends; the page waits for the next interaction
DashEnd ==
    /\ caller = "dashboard"
    /\ dphase = "rendered"
    /\ RunReset
    /\ caller' = "none"
    /\ dphase' = "idle"
    /\ message' = "none"
    /\ loaded' = <<NoPath, <<>>>>
    /\ UNCHANGED <<clock, dirs, files, runs, clsVars, filterVars>>

\* ------------------------------------------------------------------ clock
Tick ==
    /\ clock < 9 + MaxTicks
    /\ clock' = clock + 1
    /\ UNCHANGED <<dirs, files, runs, caller, phase, username, prefix, tweets, events,
                   error, llmCalls, fetchVars, store0, dphase, message, loaded, clsVars, filterVars>>

\* ------------------------------------------------------- the specification
ClassifierOff ==
    /\ cTweet = Post(1)
    /\ cData = <<>>
    /\ cEvent = <<>>

FiltersOff ==
    /\ fstage = "off"
    /\ df = <<>>
    /\ time_window = "All"
    /\ selected_session = <<>>
    /\ selected_impacts = {}
    /\ selected_type_labels = {}
    /\ selected_regions = {}
    /\ df_filtered = <<>>
    /\ n_events = 0
    /\ min_time = 0
    /\ max_time_filtered = 0
    /\ chart = <<>>
    /\ df_display = <<>>

PipelineIdle ==
    /\ clock = 9
    /\ dirs = {}
    /\ files = <<>>
    /\ runs = 0
    /\ caller = "none"
    /\ phase = "Idle"
    /\ username = <<>>
    /\ prefix = <<>>
    /\ tweets = <<>>
    /\ events = <<>>
    /\ error = "none"
    /\ llmCalls = 0
    /\ max_tweets = 0
    /\ fetchCalls = 0
    /\ listing = <<>>
    /\ store0 = [dirs |-> {}, files |-> <<>>]
    /\ dphase = "idle"
    /\ message = "none"
    /\ loaded = <<NoPath, <<>>>>

Init == PipelineIdle /\ ClassifierOff /\ FiltersOff

Next ==
    \/ CliMain
    \/ FetchTweets
    \/ ClassifyNext
    \/ ExportEvents
    \/ CliExit
    \/ DashRerun
    \/ DashRunPipeline
    \/ DashPipelineDone
    \/ DashLoad
    \/ DashEnd
    \/ Tick

Spec == Init /\ [][Next]_vars

\* execute_pipeline is straight-line synchronous code and every request it
\* makes returns or raises (the HTTP calls carry a timeout): a started run
\* always takes its next step
SpecFair ==
    Spec /\ WF_vars(FetchTweets) /\ WF_vars(ClassifyNext) /\ WF_vars(ExportEvents)

\* The classifier on every answer of the service: one post, one answer, and
\* the structured event execute_pipeline builds from them.
ClassifierInit ==
    /\ cTweet \in PostPool
    /\ cData \in ServiceResponses
    /\ cEvent = <<>>

ClassifyOne ==
    /\ cEvent = <<>>
    /\ cEvent' = <<EventRecord(cTweet, ClassifyTweet(cData))>>
    /\ UNCHANGED <<cTweet, cData, pipeVars, filterVars>>

InitClassifier == PipelineIdle /\ ClassifierInit /\ FiltersOff

NextClassifier == ClassifyOne

SpecClassifier == InitClassifier /\ [][NextClassifier]_vars

\* ------------------------------------------------------------------ claims
\* the files of the structured-events directory a run has created or changed
StructuredWrites ==
    {p \in DOMAIN files :
        /\ p.dir = StructuredDir
        /\ (p \notin DOMAIN store0.files \/ files[p] # store0.files[p])}

\* C1: a run that fetched N >= 1 posts and returned without an error has
\* written one structured-events file, under its own prefix, with exactly N
\* records; record i carries the id, created_at and text of fetched post i.
C1_StructuredMatchesFetch ==
    (phase \in Terminal /\ error = "none" /\ Len(tweets) >= 1) =>
        LET path == EventsPath(prefix)
        IN  /\ phase = "StructuredPersisted"
            /\ path \in DOMAIN files
            /\ files[path].ok
            /\ Len(files[path].data) = Len(tweets)
            /\ \A i \in 1..Len(tweets) :
                  /\ files[path].data[i].tweet_id = tweets[i].id
                  /\ files[path].data[i].tweet_created_at = tweets[i].created_at
                  /\ files[path].data[i].tweet_text = tweets[i].text
            /\ StructuredWrites \subseteq {path}

C1_Witness ==
    /\ phase = "StructuredPersisted"
    /\ Len(tweets) = 2
    /\ tweets[1] = Post(2)
    /\ EventsPath(prefix) \in DOMAIN files

\* C2: when the fetcher returns an empty list the run ends without an error,
\* has not called the classifier, and the store (directories and files) is
\* what it was when the run started.
C2_EmptyFetchWritesNothing ==
    (phase \in Terminal /\ error = "none" /\ tweets = <<>>) =>
        /\ phase = "EmptyStop"
        /\ llmCalls = 0
        /\ events = <<>>
        /\ dirs = store0.dirs
        /\ files = store0.files

C2_Witness ==
    /\ phase = "EmptyStop"
    /\ caller = "dashboard"
    /\ DOMAIN files # {}

\* C3: when the classification of post k fails, the error propagates, posts
\* k+1..N are not classified, and the store differs from the one at the start
\* of the run by the raw-posts file alone: no structured-events file, not even
\* for the k-1 posts already classified.
C3_ClassificationFailureAborts ==
    (phase = "Aborted" /\ error = "ClassificationError") =>
        /\ llmCalls = Len(events) + 1
        /\ llmCalls <= Len(tweets)
        /\ StructuredWrites = {}
        /\ dirs = store0.dirs \cup {RawDir}
        /\ DOMAIN files = DOMAIN store0.files \cup {RawPath(prefix)}
        /\ \A p \in DOMAIN files :
              files[p] = IF p = RawPath(prefix) THEN Written(tweets) ELSE store0.files[p]

C3_Witness ==
    /\ phase = "Aborted"
    /\ error = "ClassificationError"
    /\ Len(tweets) = 2
    /\ Len(events) = 1

\* C4: the structured event built from any answer of the service has its
\* event_type among the 8 event types, its country_region among the 5 regions
\* and its impact among the 3 impacts; each of the three is the answer's value
\* when that value is in the vocabulary and OTHER / Global / Faible when the
\* key is absent or its value is outside the vocabulary, whatever the other
\* two are.
EventTypeVocabulary ==
    {"MACRO_DATA", "CENTRAL_BANK", "EARNINGS", "GEOPOLITICS", "CRYPTO",
     "COMMODITIES", "POLICY/REGULATION", "OTHER"}
RegionVocabulary == {"US", "EU", "China", "UK", "Global"}
ImpactVocabulary == {"Faible", "Moyen", "Élevé"}

Coerced(data, key, vocabulary, default) ==
    IF key \in DOMAIN data /\ data[key] \in vocabulary THEN data[key] ELSE default

C4_FieldsCoercedToVocabulary ==
    cEvent # <<>> =>
        /\ Cardinality(EventTypeVocabulary) = 8
        /\ Cardinality(RegionVocabulary) = 5
        /\ Cardinality(ImpactVocabulary) = 3
        /\ cEvent[1].event_type \in EventTypeVocabulary
        /\ cEvent[1].country_region \in RegionVocabulary
        /\ cEvent[1].impact \in ImpactVocabulary
        /\ cEvent[1].event_type = Coerced(cData, "event_type", EventTypeVocabulary, "OTHER")
        /\ cEvent[1].country_region = Coerced(cData, "country_region", RegionVocabulary, "Global")
        /\ cEvent[1].impact = Coerced(cData, "impact", ImpactVocabulary, "Faible")

C4_Witness ==
    /\ cEvent # <<>>
    /\ "event_type" \in DOMAIN cData
    /\ cData["event_type"] = "crypto"
    /\ "country_region" \in DOMAIN cData
    /\ cData["country_region"] = "US"
    /\ "impact" \in DOMAIN cData
    /\ cData["impact"] = "High"
    /\ cEvent[1].event_type = "OTHER"
    /\ cEvent[1].country_region = "US"
    /\ cEvent[1].impact = "Faible"

\* C5: when a run has just written its structured-events file, the file that
\* sorts last among *_events.json is that file, so that the load that follows
\* a successful run returns the events of that run.
C5_LatestIsMostRecentRun ==
    phase = "StructuredPersisted" =>
        load_latest_events_file(dirs, files) = <<EventsPath(prefix), events>>

\* C6: no step changes or removes a file that is already in the store: a run
\* only ever adds files of its own.
C6_StoreIsAppendOnly ==
    [][\A p \in DOMAIN files : p \in DOMAIN files' /\ files'[p] = files[p]]_vars

\* C7: after a dashboard-triggered run that failed, the events the dashboard
\* loads are the events the store held as latest when the run was triggered.
C7_FailedRunKeepsShownEvents ==
    (dphase = "rendered" /\ message = "error") =>
        loaded[2] = load_latest_events_file(store0.dirs, store0.files)[2]

\* C8: the load returns (none, []) when the structured-events directory is
\* absent or holds no *_events.json file; otherwise the path whose name sorts
\* last, with the parsed content of that very file, or [] when that file is
\* not valid JSON.
C8_LoadLatest ==
    dphase = "rendered" =>
        LET matching == {p \in DOMAIN files :
                            p.dir = StructuredDir /\ EndsWith(p.name, EventsSuffix)}
        IN  IF StructuredDir \notin dirs \/ matching = {}
            THEN loaded = <<NoPath, <<>>>>
            ELSE /\ loaded[1] \in matching
                 /\ \A q \in matching \ {loaded[1]} : LexLess(q.name, loaded[1].name)
                 /\ loaded[2] = IF files[loaded[1]].ok THEN files[loaded[1]].data ELSE <<>>

C8_Witness ==
    /\ dphase = "rendered"
    /\ loaded[1] # NoPath
    /\ ~files[loaded[1]].ok
    /\ loaded[2] = <<>>
    /\ \E q \in DOMAIN files :
          /\ q.dir = StructuredDir
          /\ q # loaded[1]
          /\ files[q].ok
          /\ files[q].data # <<>>

\* C9: the explanation of every event in every structured-events file is a
\* string and is not empty.
C9_RationaleNonEmpty ==
    \A p \in DOMAIN files :
        p.dir = StructuredDir =>
            \A i \in DOMAIN files[p].data :
                /\ files[p].data[i].explanation # None
                /\ files[p].data[i].explanation # ""

\* --------------------------------------------- app.py: derive and filter
EVENT_TYPE_PRETTY ==
    [c \in EventTypeVocabulary |->
        CASE c = "MACRO_DATA"        -> "Macro data"
          [] c = "CENTRAL_BANK"      -> "Central banks"
          [] c = "EARNINGS"          -> "Earnings"
          [] c = "GEOPOLITICS"       -> "Geopolitics"
          [] c = "CRYPTO"            -> "Crypto"
          [] c = "COMMODITIES"       -> "Commodities"
          [] c = "POLICY/REGULATION" -> "Policy & regulation"
          [] c = "OTHER"             -> "Other"]

IMPACT_ORDER == <<"Faible", "Moyen", "Élevé">>

\* timestamps are seconds; .dt.date is the day number
DateOf(t) == t \div 86400

\* strftime("%Y/%m/%d %H:%M:%S"): the fields of the timestamp
DisplayTime(t) == <<t \div 86400, (t % 86400) \div 3600, (t % 3600) \div 60, t % 60>>

\* str(d) of a date, two digits, and "All days"
DateStr(d) == <<48 + ((d \div 10) % 10), 48 + (d % 10)>>
AllDays == <<65, 108, 108, 32, 100, 97, 121, 115>>

IsDigit(c) == c >= 48 /\ c <= 57

\* datetime.strptime(s, "%Y-%m-%d").date(): the day, or -1 when it raises
ParseDate(s) ==
    IF Len(s) = 2 /\ IsDigit(s[1]) /\ IsDigit(s[2])
    THEN (s[1] - 48) * 10 + (s[2] - 48)
    ELSE -1

\* df["event_type"].map(EVENT_TYPE_PRETTY).fillna(df["event_type"])
EventTypeLabel(code) ==
    IF code \in DOMAIN EVENT_TYPE_PRETTY THEN EVENT_TYPE_PRETTY[code] ELSE code

\* df["impact"].map(impact_size_map).fillna(60.0)
ImpactSize(impact) ==
    CASE impact = "Faible" -> 40
      [] impact = "Moyen"  -> 80
      [] impact = "Élevé"  -> 160
      [] OTHER             -> 60

\* one row of build_events_dataframe(events)
DisplayRow(e) ==
    [tweet_created_at         |-> e.tweet_created_at,
     tweet_created_at_display |-> DisplayTime(e.tweet_created_at),
     tweet_date               |-> DateOf(e.tweet_created_at),
     event_type               |-> e.event_type,
     event_type_label         |-> EventTypeLabel(e.event_type),
     country_region           |-> e.country_region,
     impact                   |-> e.impact,
     impact_size              |-> ImpactSize(e.impact),
     tweet_text               |-> e.tweet_text,
     explanation              |-> e.explanation,
     tweet_id                 |-> e.tweet_id]

build_events_dataframe(evts) == [i \in DOMAIN evts |-> DisplayRow(evts[i])]

TimeWindows ==
    {"All", "Last 30 minutes", "Last 1 hour", "Last 2 hours", "Last 24 hours",
     "Last 5 days"}

\* the timedelta of a time_window choice, in seconds
WindowDelta(w) ==
    CASE w = "Last 30 minutes" -> 30 * 60
      [] w = "Last 1 hour"     -> 3600
      [] w = "Last 2 hours"    -> 2 * 3600
      [] w = "Last 24 hours"   -> 86400
      [] w = "Last 5 days"     -> 5 * 86400

\* df["tweet_created_at"].max()
MaxTime(rows) ==
    CHOOSE t \in {rows[i].tweet_created_at : i \in DOMAIN rows} :
        \A i \in DOMAIN rows : rows[i].tweet_created_at <= t

\* the options the sidebar offers for a dataframe
SessionOptions(rows) == {AllDays} \cup {DateStr(rows[i].tweet_date) : i \in DOMAIN rows}
AvailableImpacts(rows) ==
    {IMPACT_ORDER[k] : k \in {j \in DOMAIN IMPACT_ORDER :
                                 \E i \in DOMAIN rows : rows[i].impact = IMPACT_ORDER[j]}}
TypeLabels(rows) == {EventTypeLabel(rows[i].event_type) : i \in DOMAIN rows}
AvailableRegions(rows) == {rows[i].country_region : i \in DOMAIN rows}

\* selected_type_codes = [label_to_code[l] for l in selected_type_labels]
SelectedTypeCodes(rows, labels) ==
    {c \in {rows[i].event_type : i \in DOMAIN rows} : EventTypeLabel(c) \in labels}

\* main(), from `df_filtered = df.copy()` to the region filter
FilterRows_NoRegionFilter(rows, tw, session, impacts, labels, regions) ==
    LET max_time == MaxTime(rows)
        InWindow(r) == r.tweet_created_at >= max_time - WindowDelta(tw)
        f1 == IF tw # "All" THEN SelectSeq(rows, InWindow) ELSE rows
        selected_date == ParseDate(session)
        OnDay(r) == r.tweet_date = selected_date
        f2 == IF session # AllDays /\ selected_date # -1 THEN SelectSeq(f1, OnDay) ELSE f1
        HasImpact(r) == r.impact \in impacts
        f3 == IF impacts # {} THEN SelectSeq(f2, HasImpact) ELSE f2
        selected_type_codes == SelectedTypeCodes(rows, labels)
        HasType(r) == r.event_type \in selected_type_codes
        f4 == IF selected_type_codes # {} THEN SelectSeq(f3, HasType) ELSE f3
    IN  f4

FilterRows_StrictWindow(rows, tw, session, impacts, labels, regions) ==
    LET max_time == MaxTime(rows)
        InWindow(r) == r.tweet_created_at > max_time - WindowDelta(tw)
        f1 == IF tw # "All" THEN SelectSeq(rows, InWindow) ELSE rows
        selected_date == ParseDate(session)
        OnDay(r) == r.tweet_date = selected_date
        f2 == IF session # AllDays /\ selected_date # -1 THEN SelectSeq(f1, OnDay) ELSE f1
        HasImpact(r) == r.impact \in impacts
        f3 == IF impacts # {} THEN SelectSeq(f2, HasImpact) ELSE f2
        selected_type_codes == SelectedTypeCodes(rows, labels)
        HasType(r) == r.event_type \in selected_type_codes
        f4 == IF selected_type_codes # {} THEN SelectSeq(f3, HasType) ELSE f3
        InRegion(r) == r.country_region \in regions
        f5 == IF regions # {} THEN SelectSeq(f4, InRegion) ELSE f4
    IN  f5

FilterRows(rows, tw, session, impacts, labels, regions) ==
    LET max_time == MaxTime(rows)
        InWindow(r) == r.tweet_created_at >= max_time - WindowDelta(tw)
        f1 == IF tw # "All" THEN SelectSeq(rows, InWindow) ELSE rows
        selected_date == ParseDate(session)
        OnDay(r) == r.tweet_date = selected_date
        f2 == IF session # AllDays /\ selected_date # -1 THEN SelectSeq(f1, OnDay) ELSE f1
        HasImpact(r) == r.impact \in impacts
        f3 == IF impacts # {} THEN SelectSeq(f2, HasImpact) ELSE f2
        selected_type_codes == SelectedTypeCodes(rows, labels)
        HasType(r) == r.event_type \in selected_type_codes
        f4 == IF selected_type_codes # {} THEN SelectSeq(f3, HasType) ELSE f3
        InRegion(r) == r.country_region \in regions
        f5 == IF regions # {} THEN SelectSeq(f4, InRegion) ELSE f4
    IN  f5

\* The structured events of the file the dashboard has loaded: six events at
\* T, T-10min, T-30min, T-2h, T-24h and T-10days, over three impacts, three
\* event types and three regions.
DashEvent(i) ==
    EventRecord(
        [id |-> "id" \o ToString(i),
         created_at |-> CASE i = 1 -> 900000
                          [] i = 2 -> 900000 - 600
                          [] i = 3 -> 900000 - 1800
                          [] i = 4 -> 900000 - 7200
                          [] i = 5 -> 900000 - 86400
                          [] i = 6 -> 900000 - 864000,
         text |-> "text" \o ToString(i)],
        [event_type     |-> CASE i \in {1, 2, 6} -> "CRYPTO"
                              [] i \in {3, 5}    -> "OTHER"
                              [] i = 4           -> "MACRO_DATA",
         country_region |-> CASE i \in {1, 3, 6} -> "US"
                              [] i \in {2, 4}    -> "Global"
                              [] i = 5           -> "EU",
         impact         |-> CASE i \in {1, 4} -> "Élevé"
                              [] i \in {2, 5} -> "Faible"
                              [] i \in {3, 6} -> "Moyen",
         explanation    |-> "Rates may move."])

DashEventLists == {s \in SeqsUpTo({DashEvent(i) : i \in 1..6}, MaxRows) : Distinct(s)}

\* app.main after load_latest_events_file: `if not events` returns, else the
\* dataframe is built
BuildDataframe ==
    /\ fstage = "loaded"
    /\ IF loaded[2] = <<>>
       THEN /\ fstage' = "no_events"
            /\ UNCHANGED df
       ELSE /\ df' = build_events_dataframe(loaded[2])
            /\ fstage' = "built"
    /\ UNCHANGED <<time_window, selected_session, selected_impacts, selected_type_labels,
                   selected_regions, df_filtered, n_events, renderVars, pipeVars,
                   clsVars>>

\* the five sidebar widgets, each over the options the dataframe gives it
ChooseFilters ==
    /\ fstage = "built"
    /\ time_window' \in TimeWindows
    /\ selected_session' \in SessionOptions(df)
    /\ selected_impacts' \in SUBSET AvailableImpacts(df)
    /\ selected_type_labels' \in SUBSET TypeLabels(df)
    /\ selected_regions' \in SUBSET AvailableRegions(df)
    /\ fstage' = "chosen"
    /\ UNCHANGED <<df, df_filtered, n_events, renderVars, pipeVars, clsVars>>

\* the filters, the empty-result return, and n_events = len(df_filtered)
ApplyFilters ==
    /\ fstage = "chosen"
    /\ df_filtered' = FilterRows(df, time_window, selected_session, selected_impacts,
                                 selected_type_labels, selected_regions)
    /\ IF df_filtered' = <<>>
       THEN /\ fstage' = "no_match"
            /\ UNCHANGED n_events
       ELSE /\ n_events' = Len(df_filtered')
            /\ fstage' = "summary"
    /\ UNCHANGED <<df, time_window, selected_session, selected_impacts,
                   selected_type_labels, selected_regions, renderVars, pipeVars,
                   clsVars>>

\* np.random.uniform(-60, 60), in whole seconds: the low end, zero, and the
\* last second under the high end
JitterSeconds == {-60, 0, 59}

\* df[col] = v on one row, and df.drop(columns=cols, errors="ignore")
WithColumn(r, col, v) == [f \in DOMAIN r \cup {col} |-> IF f = col THEN v ELSE r[f]]
DropColumns(r, cols) == [f \in DOMAIN r \ cols |-> r[f]]

\* df_filtered = df_filtered.copy(), and the tweet_created_at_jitter column
ApplyJitter_InPlace ==
    /\ fstage = "summary"
    /\ \E jitter_seconds \in [DOMAIN df_filtered -> JitterSeconds] :
          df_filtered' =
              [i \in DOMAIN df_filtered |->
                  WithColumn(
                      WithColumn(df_filtered[i], "tweet_created_at",
                                 df_filtered[i].tweet_created_at + jitter_seconds[i]),
                      "tweet_created_at_jitter",
                      df_filtered[i].tweet_created_at + jitter_seconds[i])]
    /\ fstage' = "jittered"
    /\ UNCHANGED <<df, time_window, selected_session, selected_impacts,
                   selected_type_labels, selected_regions, n_events, renderVars,
                   pipeVars, clsVars>>

ApplyJitter ==
    /\ fstage = "summary"
    /\ \E jitter_seconds \in [DOMAIN df_filtered -> JitterSeconds] :
          df_filtered' =
              [i \in DOMAIN df_filtered |->
                  WithColumn(df_filtered[i], "tweet_created_at_jitter",
                             df_filtered[i].tweet_created_at + jitter_seconds[i])]
    /\ fstage' = "jittered"
    /\ UNCHANGED <<df, time_window, selected_session, selected_impacts,
                   selected_type_labels, selected_regions, n_events, renderVars,
                   pipeVars, clsVars>>

\* df_filtered["tweet_created_at"].min()
MinTime(rows) ==
    CHOOSE t \in {rows[i].tweet_created_at : i \in DOMAIN rows} :
        \A i \in DOMAIN rows : t <= rows[i].tweet_created_at

\* one circle of the timeline: x from the jitter column, the tooltip's Time
\* from tweet_created_at, formatted
ChartPoint(r) ==
    [x       |-> r.tweet_created_at_jitter,
     y       |-> r.event_type_label,
     color   |-> r.impact,
     size    |-> r.impact_size,
     tooltip |-> [Time        |-> DisplayTime(r.tweet_created_at),
                  EventType   |-> r.event_type_label,
                  Region      |-> r.country_region,
                  Impact      |-> r.impact,
                  Tweet       |-> r.tweet_text,
                  Explanation |-> r.explanation]]

cols_to_drop ==
    {"tweet_date", "event_type", "impact_size", "tweet_text_short", "tweet_id",
     "tweet_created_at_jitter"}

\* one row of df_display: tweet_created_at dropped, tweet_created_at_display
\* renamed to it, cols_to_drop dropped
DetailRow(r) ==
    LET renamed == [f \in DOMAIN r \ {"tweet_created_at_display"} |->
                       IF f = "tweet_created_at" THEN r.tweet_created_at_display
                       ELSE r[f]]
    IN  DropColumns(renamed, cols_to_drop)

\* the Context summary, the timeline chart and the detail table, all from
\* the frame that carries the jitter column
RenderFiltered ==
    /\ fstage = "jittered"
    /\ min_time' = MinTime(df_filtered)
    /\ max_time_filtered' = MaxTime(df_filtered)
    /\ n_events' = Len(df_filtered)
    /\ chart' = [i \in DOMAIN df_filtered |-> ChartPoint(df_filtered[i])]
    /\ df_display' = [i \in DOMAIN df_filtered |-> DetailRow(df_filtered[i])]
    /\ fstage' = "drawn"
    /\ UNCHANGED <<df, time_window, selected_session, selected_impacts,
                   selected_type_labels, selected_regions, df_filtered, pipeVars,
                   clsVars>>

\* the dashboard script just after DashLoad, on any loaded events file
InitDashboard ==
    /\ clock = 9
    /\ dirs = {StructuredDir}
    /\ \E evts \in DashEventLists :
          /\ files = [p \in {EventsPath(RunPrefix(<<97>>, 9))} |-> Written(evts)]
          /\ loaded = <<EventsPath(RunPrefix(<<97>>, 9)), evts>>
    /\ runs = 0
    /\ caller = "dashboard"
    /\ phase = "Idle"
    /\ username = <<>>
    /\ prefix = <<>>
    /\ tweets = <<>>
    /\ events = <<>>
    /\ error = "none"
    /\ llmCalls = 0
    /\ max_tweets = 0
    /\ fetchCalls = 0
    /\ listing = <<>>
    /\ store0 = [dirs |-> {}, files |-> <<>>]
    /\ dphase = "rendered"
    /\ message = "none"
    /\ ClassifierOff
    /\ fstage = "loaded"
    /\ df = <<>>
    /\ time_window = "All"
    /\ selected_session = <<>>
    /\ selected_impacts = {}
    /\ selected_type_labels = {}
    /\ selected_regions = {}
    /\ df_filtered = <<>>
    /\ n_events = 0
    /\ min_time = 0
    /\ max_time_filtered = 0
    /\ chart = <<>>
    /\ df_display = <<>>

NextDashboard ==
    \/ BuildDataframe
    \/ ChooseFilters
    \/ ApplyFilters

SpecDashboard == InitDashboard /\ [][NextDashboard]_vars

\* The drawing half of the script: the sidebar holds any time window and any
\* day, the three multiselects are at their defaults (everything selected);
\* the filters are applied, the jitter drawn, and the page rendered.
InitRender ==
    /\ clock = 9
    /\ dirs = {StructuredDir}
    /\ \E evts \in DashEventLists \ {<<>>} :
          /\ files = [p \in {EventsPath(RunPrefix(<<97>>, 9))} |-> Written(evts)]
          /\ loaded = <<EventsPath(RunPrefix(<<97>>, 9)), evts>>
          /\ df = build_events_dataframe(evts)
    /\ runs = 0
    /\ caller = "dashboard"
    /\ phase = "Idle"
    /\ username = <<>>
    /\ prefix = <<>>
    /\ tweets = <<>>
    /\ events = <<>>
    /\ error = "none"
    /\ llmCalls = 0
    /\ max_tweets = 0
    /\ fetchCalls = 0
    /\ listing = <<>>
    /\ store0 = [dirs |-> {}, files |-> <<>>]
    /\ dphase = "rendered"
    /\ message = "none"
    /\ ClassifierOff
    /\ fstage = "chosen"
    /\ time_window \in TimeWindows
    /\ selected_session \in SessionOptions(df)
    /\ selected_impacts = AvailableImpacts(df)
    /\ selected_type_labels = TypeLabels(df)
    /\ selected_regions = AvailableRegions(df)
    /\ df_filtered = <<>>
    /\ n_events = 0
    /\ min_time = 0
    /\ max_time_filtered = 0
    /\ chart = <<>>
    /\ df_display = <<>>

NextRender ==
    \/ ApplyFilters
    \/ ApplyJitter
    \/ RenderFiltered

SpecRender == InitRender /\ [][NextRender]_vars

\* C10 as stated: the filtered set is the rows that pass all five tests, each
\* of the three selections being a membership test (so that an empty selection
\* lets no row through).
FiltersDone == fstage \in {"summary", "no_match"}

InTimeWindow(r) ==
    time_window = "All" \/ MaxTime(df) - WindowDelta(time_window) <= r.tweet_created_at

OnSelectedDay(r) ==
    selected_session = AllDays \/ DateStr(r.tweet_date) = selected_session

PassesAllFive(r) ==
    /\ InTimeWindow(r)
    /\ OnSelectedDay(r)
    /\ r.impact \in selected_impacts
    /\ r.event_type_label \in selected_type_labels
    /\ r.country_region \in selected_regions

C10_FilteredIsConjunction ==
    FiltersDone => df_filtered = SelectSeq(df, PassesAllFive)

\* C10, amended: the filtered set is the rows that pass the time window, the
\* day match and, for each of the three selections that is not empty, the
\* membership test (an empty selection filters nothing); the summary count is
\* the number of filtered rows; with the other four filters at their defaults,
\* selecting one impact level gives exactly the rows of that level.
PassesNonEmptySelections(r) ==
    /\ InTimeWindow(r)
    /\ OnSelectedDay(r)
    /\ (selected_impacts = {} \/ r.impact \in selected_impacts)
    /\ (selected_type_labels = {} \/ r.event_type_label \in selected_type_labels)
    /\ (selected_regions = {} \/ r.country_region \in selected_regions)

C10_FilteredIsConjunctionOfNonEmpty ==
    FiltersDone =>
        /\ df_filtered = SelectSeq(df, PassesNonEmptySelections)
        /\ fstage = "summary" <=> df_filtered # <<>>
        /\ fstage = "summary" =>
              n_events = Cardinality({i \in DOMAIN df : PassesNonEmptySelections(df[i])})
        /\ \A level \in ImpactVocabulary :
              ( /\ selected_impacts = {level}
                /\ time_window = "All"
                /\ selected_session = AllDays
                /\ selected_type_labels = TypeLabels(df)
                /\ selected_regions = AvailableRegions(df) )
              => /\ fstage = "summary"
                 /\ \A i \in DOMAIN df_filtered : df_filtered[i].impact = level
                 /\ n_events = Cardinality({i \in DOMAIN df : df[i].impact = level})

C10_Witness ==
    /\ fstage = "summary"
    /\ time_window = "Last 30 minutes"
    /\ selected_session # AllDays
    /\ selected_impacts = {"Élevé"}
    /\ selected_regions = {}
    /\ Len(df) = 2
    /\ n_events = 1

\* C11: the time-window filter with window W keeps exactly the rows whose
\* timestamp t satisfies T - W <= t, T being the maximum timestamp of the whole
\* dataframe, taken before any other filter; with "All" no row is dropped by
\* it. Every filtered row is inside the window whatever the other filters are;
\* with the other four filters letting everything through, the filtered rows
\* are exactly the rows inside the window, in order; and for events at
\* T-10min, T-2h and T-10days, "Last 1 hour" keeps exactly the T-10min row.
OtherFiltersOpen ==
    /\ selected_session = AllDays
    /\ selected_impacts \in {{}, AvailableImpacts(df)}
    /\ selected_type_labels \in {{}, TypeLabels(df)}
    /\ selected_regions \in {{}, AvailableRegions(df)}

Timestamps(rows) == [i \in DOMAIN rows |-> rows[i].tweet_created_at]

C11_TimeWindowKeepsLastW ==
    FiltersDone =>
        LET T == MaxTime(df)
            W == WindowDelta(time_window)
            Recent(r) == T - W <= r.tweet_created_at
        IN  /\ time_window # "All" =>
                  \A i \in DOMAIN df_filtered : Recent(df_filtered[i])
            /\ (time_window # "All" /\ OtherFiltersOpen) =>
                  df_filtered = SelectSeq(df, Recent)
            /\ (time_window = "All" /\ OtherFiltersOpen) => df_filtered = df
            /\ ( /\ time_window = "Last 1 hour"
                 /\ OtherFiltersOpen
                 /\ Len(df) = 3
                 /\ {df[i].tweet_created_at : i \in DOMAIN df}
                       = {900000 - 600, 900000 - 7200, 900000 - 864000} )
               => Timestamps(df_filtered) = <<900000 - 600>>

\* a dataframe holding a row exactly W before the latest one, which is kept,
\* and an older one, which is dropped
C11_Witness ==
    /\ fstage = "summary"
    /\ time_window = "Last 30 minutes"
    /\ OtherFiltersOpen
    /\ Len(df) = 3
    /\ \E i \in DOMAIN df : df[i].tweet_created_at = MaxTime(df) - 30 * 60
    /\ \E i \in DOMAIN df_filtered :
          df_filtered[i].tweet_created_at = MaxTime(df) - 30 * 60
    /\ Len(df_filtered) = 2

\* C12: the jitter is stored only in a separate plot-position value within 60
\* seconds of the row's true timestamp. Once the jitter is drawn, the frame
\* without its jitter column is still exactly the filter result (same rows,
\* same true timestamps and display timestamps); once the page is rendered,
\* the summary count and min/max, the tooltip time and the detail table are
\* those of the filter result, only the chart's x is the jittered value, and
\* the detail table has no jitter column.
C12_Kept ==
    FilterRows(df, time_window, selected_session, selected_impacts,
               selected_type_labels, selected_regions)

C12_JitterOnlyMovesPlotPosition ==
    fstage \in {"jittered", "drawn"} =>
        /\ DOMAIN df_filtered = DOMAIN C12_Kept
        /\ \A i \in DOMAIN df_filtered :
              LET r == df_filtered[i]
                  t == C12_Kept[i].tweet_created_at
              IN  /\ DropColumns(r, {"tweet_created_at_jitter"}) = C12_Kept[i]
                  /\ r.tweet_created_at_jitter - t <= 60
                  /\ t - r.tweet_created_at_jitter <= 60
        /\ fstage = "drawn" =>
              /\ n_events = Len(C12_Kept)
              /\ min_time = MinTime(C12_Kept)
              /\ max_time_filtered = MaxTime(C12_Kept)
              /\ DOMAIN chart = DOMAIN C12_Kept
              /\ DOMAIN df_display = DOMAIN C12_Kept
              /\ \A i \in DOMAIN C12_Kept :
                    /\ chart[i].x = df_filtered[i].tweet_created_at_jitter
                    /\ chart[i].tooltip.Time = DisplayTime(C12_Kept[i].tweet_created_at)
                    /\ df_display[i] = DetailRow(C12_Kept[i])
                    /\ df_display[i].tweet_created_at =
                          DisplayTime(C12_Kept[i].tweet_created_at)
                    /\ "tweet_created_at_jitter" \notin DOMAIN df_display[i]

\* a rendered page where a window dropped a row, the earliest kept row is
\* plotted a full minute before the summary's earliest time, and another row
\* is plotted after its true time
C12_Witness ==
    /\ fstage = "drawn"
    /\ time_window # "All"
    /\ Len(df_filtered) < Len(df)
    /\ \E i \in DOMAIN chart : chart[i].x = min_time - 60
    /\ \E i \in DOMAIN df_filtered :
          df_filtered[i].tweet_created_at_jitter > df_filtered[i].tweet_created_at

\* C13: for every max_tweets >= 1 a run is given, the number of posts it
\* fetches, and so the number of raw posts and of structured events it writes,
\* never exceeds max_tweets; and the run sends at most one listing request,
\* of size clamp(max_tweets, 5, 100).
C13_RunFiles ==
    {p \in DOMAIN files :
        /\ p \in {RawPath(prefix), EventsPath(prefix)}
        /\ (p \notin DOMAIN store0.files \/ files[p] # store0.files[p])}

C13_AtMostMaxTweets ==
    (phase # "Idle" /\ max_tweets >= 1) =>
        /\ Len(tweets) <= max_tweets
        /\ Len(events) <= max_tweets
        /\ \A p \in C13_RunFiles : Len(files[p].data) <= max_tweets
        /\ Len(listing) <= 1
        /\ \A i \in DOMAIN listing :
              listing[i] = IF max_tweets < 5 THEN 5
                           ELSE IF max_tweets > 100 THEN 100 ELSE max_tweets

\* C14: a run follows Idle -> Fetching -> {EmptyStop | RawPersisted ->
\* Classifying -> StructuredPersisted}, any step may instead end it in Aborted,
\* a run that has not ended always has its next step to take, and every
\* started run ends in EmptyStop, StructuredPersisted or Aborted. The fetcher
\* is called exactly once per run; the raw file is on disk, complete, before
\* the first classifier call; the classifier is called at most once per post,
\* one call per step, the k-th call for the k-th fetched post; the structured
\* file is written only when every post has been classified; after a failed
\* call the run makes no further call and writes nothing.
C14_Transitions ==
    {<<"Idle", "Fetching">>,
     <<"Fetching", "EmptyStop">>, <<"Fetching", "RawPersisted">>,
     <<"RawPersisted", "Classifying">>, <<"Classifying", "Classifying">>,
     <<"Classifying", "StructuredPersisted">>,
     <<"Fetching", "Aborted">>, <<"RawPersisted", "Aborted">>,
     <<"Classifying", "Aborted">>,
     <<"EmptyStop", "Idle">>, <<"StructuredPersisted", "Idle">>, <<"Aborted", "Idle">>}

C14_RunState ==
    /\ phase \in {"Idle", "Fetching", "EmptyStop", "RawPersisted", "Classifying",
                  "StructuredPersisted", "Aborted"}
    /\ phase \in {"Fetching", "RawPersisted", "Classifying"} =>
          /\ error = "none"
          /\ ENABLED (FetchTweets \/ ClassifyNext \/ ExportEvents)
    /\ error # "none" => phase = "Aborted"
    /\ fetchCalls = IF phase \in {"Idle", "Fetching"} THEN 0 ELSE 1
    /\ Len(listing) <= fetchCalls
    /\ llmCalls = Len(events) + (IF error = "ClassificationError" THEN 1 ELSE 0)
    /\ llmCalls <= Len(tweets)
    /\ \A i \in DOMAIN events :
          /\ events[i].tweet_id = tweets[i].id
          /\ events[i].tweet_text = tweets[i].text
    /\ llmCalls >= 1 =>
          /\ RawPath(prefix) \in DOMAIN files
          /\ files[RawPath(prefix)] = Written(tweets)
    /\ phase \in {"EmptyStop", "RawPersisted"} => llmCalls = 0
    /\ phase = "StructuredPersisted" =>
          /\ llmCalls = Len(tweets)
          /\ files[EventsPath(prefix)] = Written(events)

C14_RunStep ==
    /\ phase' # phase => <<phase, phase'>> \in C14_Transitions
    /\ llmCalls' # llmCalls =>
          \/ phase' = "Idle"
          \/ /\ llmCalls' = llmCalls + 1
             /\ phase \in {"RawPersisted", "Classifying"}
             /\ files[RawPath(prefix)] = Written(tweets)
             /\ UNCHANGED <<tweets, files, fetchCalls, listing>>
    /\ fetchCalls' # fetchCalls =>
          \/ phase' = "Idle"
          \/ phase = "Fetching" /\ fetchCalls' = 1 /\ llmCalls' = 0
    /\ (phase \notin {"Idle", "Fetching"} /\ phase' # "Idle") =>
          UNCHANGED <<tweets, prefix, max_tweets, listing>>
    /\ (phase # "Fetching" /\ files' # files) =>
          /\ phase = "Classifying"
          /\ llmCalls = Len(tweets)
          /\ Len(events) = Len(tweets)
          /\ UNCHANGED <<llmCalls, events>>
          /\ \A p \in DOMAIN files : p # EventsPath(prefix) =>
                p \in DOMAIN files' /\ files'[p] = files[p]
    /\ phase \in Terminal =>
          /\ UNCHANGED <<dirs, files>>
          /\ phase' \in {phase, "Idle"}
          /\ phase' = phase => UNCHANGED <<llmCalls, fetchCalls, listing, events, error>>

C14_RunStateMachine ==
    /\ [](C14_RunState)
    /\ [][C14_RunStep]_vars
    /\ (phase = "Fetching") ~> (phase \in Terminal)

\* a run of two posts that classified both, one call each, and wrote the
\* structured file; and the same state reached on a second run
C14_Witness ==
    /\ phase = "StructuredPersisted"
    /\ runs = 2
    /\ Len(tweets) = 2
    /\ llmCalls = 2
    /\ fetchCalls = 1
    /\ listing = <<5>>

\* C15: between runs, every complete structured-events file has,
\* under the same prefix, a complete raw-posts file with the same number of
\* entries, whose ids, timestamps and texts are, in order, the tweet_id,
\* tweet_created_at and tweet_text of the structured entries.
C15_StructuredPrefixes ==
    {SubSeq(p.name, 1, Len(p.name) - Len(EventsSuffix)) :
        p \in {q \in DOMAIN files :
                  q.dir = StructuredDir /\ EndsWith(q.name, EventsSuffix) /\ files[q].ok}}

C15_StructuredHasMatchingRaw ==
    phase = "Idle" => \A pfx \in C15_StructuredPrefixes :
        /\ RawPath(pfx) \in DOMAIN files
        /\ files[RawPath(pfx)].ok
        /\ LET raw == files[RawPath(pfx)].data
               structured == files[EventsPath(pfx)].data
           IN  /\ Len(raw) = Len(structured)
               /\ \A i \in DOMAIN structured :
                     /\ i \in DOMAIN raw
                     /\ structured[i].tweet_id = raw[i].id
                     /\ structured[i].tweet_created_at = raw[i].created_at
                     /\ structured[i].tweet_text = raw[i].text

====
